---- MODULE Spec2Model ----
(***************************************************************************)
(* Unit-management table creator (main.py, src/pdf_processor.py,           *)
(* src/data_processor.py): the command-line run, the extraction cache, the *)
(* chapter segmenter, the row builder and the persisted session context,   *)
(* as a state machine over the files the program reads and writes.         *)
(*                                                                         *)
(* Representation.  A Python str is a sequence of one-character strings,   *)
(* (a Hangul character is written by its code point, "U+C81C"), a list is  *)
(* a sequence, a dict is a record, None is PyNone.  A JSON file            *)
(* is the sequence of tokens json.dump writes (whitespace left out); a     *)
(* file cut short by an interruption is a proper prefix of it.             *)
(***************************************************************************)
EXTENDS Integers, Sequences, FiniteSets, TLC

(* ------------------------------ bounds -------------------------------- *)

\* Largest session number a run may hand out (session_counter is unbounded).
MaxSession == 4

\* Largest number of PDF paths on one command line.
MaxBatch == 2

\* Tokens that reach the disk together while a file is written (the write
\* buffer): an interrupted write leaves a multiple of this many tokens.
FlushTokens == 40
\* The most lines a generated document has.
MaxDocLines == 3

(* --------------------------- Python strings --------------------------- *)

PyNone == <<"<None>">>

Whitespace == {" ", "\t", "\n"}

UpperAlphabet ==
  <<"A", "B", "C", "D", "E", "F", "G", "H", "I", "J", "K", "L", "M",
    "N", "O", "P", "Q", "R", "S", "T", "U", "V", "W", "X", "Y", "Z">>

LowerAlphabet ==
  <<"a", "b", "c", "d", "e", "f", "g", "h", "i", "j", "k", "l", "m",
    "n", "o", "p", "q", "r", "s", "t", "u", "v", "w", "x", "y", "z">>

UpperChars == {UpperAlphabet[i] : i \in 1..Len(UpperAlphabet)}

LowerChars == {LowerAlphabet[i] : i \in 1..Len(LowerAlphabet)}

\* str.lower(), character by character (a Hangul character has no case).
LowerChar(c) ==
  IF c \in UpperChars
  THEN LowerAlphabet[CHOOSE i \in 1..Len(UpperAlphabet) : UpperAlphabet[i] = c]
  ELSE c

Lower(s) == [i \in 1..Len(s) |-> LowerChar(s[i])]

\* `sub in s`
Contains(s, sub) ==
  \E i \in 1..(Len(s) - Len(sub) + 1) : SubSeq(s, i, i + Len(sub) - 1) = sub

Digits == <<"0", "1", "2", "3", "4", "5", "6", "7", "8", "9">>

RECURSIVE IntToStr(_)
IntToStr(n) ==
  IF n < 10 THEN <<Digits[n + 1]>>
  ELSE IntToStr(n \div 10) \o <<Digits[(n % 10) + 1]>>

RECURSIVE LStrip(_)
LStrip(s) ==
  IF s # <<>> /\ Head(s) \in Whitespace THEN LStrip(Tail(s)) ELSE s

RECURSIVE RStrip(_)
RStrip(s) ==
  IF s # <<>> /\ s[Len(s)] \in Whitespace
  THEN RStrip(SubSeq(s, 1, Len(s) - 1)) ELSE s

Strip(s) == RStrip(LStrip(s))

StartsWith(s, prefix) ==
  Len(s) >= Len(prefix) /\ SubSeq(s, 1, Len(prefix)) = prefix

\* str.isupper(): at least one cased character and no lower-case one.
IsUpper(s) ==
  /\ \E i \in 1..Len(s) : s[i] \in UpperChars
  /\ \A i \in 1..Len(s) : s[i] \notin LowerChars

\* str.split('\n')
RECURSIVE SplitLines(_)
SplitLines(s) ==
  IF \A i \in 1..Len(s) : s[i] # "\n" THEN <<s>>
  ELSE LET k == CHOOSE i \in 1..Len(s) :
                  s[i] = "\n" /\ \A j \in 1..(i - 1) : s[j] # "\n"
       IN <<SubSeq(s, 1, k - 1)>> \o SplitLines(SubSeq(s, k + 1, Len(s)))

\* os.path.basename: what follows the last "/".
RECURSIVE Basename(_)
Basename(p) ==
  IF \A i \in 1..Len(p) : p[i] # "/" THEN p
  ELSE LET k == CHOOSE i \in 1..Len(p) :
                  p[i] = "/" /\ \A j \in 1..(i - 1) : p[j] # "/"
       IN Basename(SubSeq(p, k + 1, Len(p)))

Range(s) == {s[i] : i \in 1..Len(s)}

\* ' | '.join(items)
RECURSIVE JoinBar(_)
JoinBar(items) ==
  IF items = <<>> THEN <<>>
  ELSE IF Len(items) = 1 THEN items[1]
  ELSE items[1] \o <<" ", "|", " ">> \o JoinBar(Tail(items))

(* ------------------------------- JSON --------------------------------- *)

Punct(c) == [t |-> "punct", c |-> c]
TKey(k)  == [t |-> "key", k |-> k]
TStr(s)  == [t |-> "str", s |-> s]
TNum(n)  == [t |-> "num", n |-> n]
TNull    == [t |-> "null"]

IsPunct(tok, c) == tok.t = "punct" /\ tok.c = c

\* The tokens of a JSON array whose items' tokens are given.
RECURSIVE JoinItems(_)
JoinItems(items) ==
  IF items = <<>> THEN <<>>
  ELSE IF Len(items) = 1 THEN items[1]
  ELSE items[1] \o <<Punct(",")>> \o JoinItems(Tail(items))

DumpArray(items) == <<Punct("[")>> \o JoinItems(items) \o <<Punct("]")>>

\* The tokens of a JSON object: fields is a sequence of <<key, tokens>>.
DumpObject(fields) ==
  <<Punct("{")>>
  \o JoinItems([i \in 1..Len(fields) |->
                 <<TKey(fields[i][1]), Punct(":")>> \o fields[i][2]])
  \o <<Punct("}")>>

ParseFail == [ok |-> FALSE, v |-> <<>>, next |-> 0]

\* The record with the given <<key, value>> pairs; a repeated key keeps its
\* last value, as a Python dict does.
DictOf(pairs) ==
  [k \in {pairs[i][1] : i \in 1..Len(pairs)} |->
     LET last == CHOOSE i \in 1..Len(pairs) :
                   /\ pairs[i][1] = k
                   /\ \A j \in (i + 1)..Len(pairs) : pairs[j][1] # k
     IN pairs[last][2]]

RECURSIVE ParseValue(_, _), ParseItems(_, _, _), ParseMembers(_, _, _)

\* json decoder, one value starting at toks[i]: [ok, v, next].
ParseValue(toks, i) ==
  IF i > Len(toks) THEN ParseFail
  ELSE LET tok == toks[i] IN
    CASE tok.t = "null" -> [ok |-> TRUE, v |-> PyNone, next |-> i + 1]
      [] tok.t = "num"  -> [ok |-> TRUE, v |-> tok.n, next |-> i + 1]
      [] tok.t = "str"  -> [ok |-> TRUE, v |-> tok.s, next |-> i + 1]
      [] tok.t = "key"  -> ParseFail
      [] tok.t = "punct" ->
           IF tok.c = "[" THEN
             IF i + 1 <= Len(toks) /\ IsPunct(toks[i + 1], "]")
             THEN [ok |-> TRUE, v |-> <<>>, next |-> i + 2]
             ELSE ParseItems(toks, i + 1, <<>>)
           ELSE IF tok.c = "{" THEN
             IF i + 1 <= Len(toks) /\ IsPunct(toks[i + 1], "}")
             THEN [ok |-> TRUE, v |-> DictOf(<<>>), next |-> i + 2]
             ELSE ParseMembers(toks, i + 1, <<>>)
           ELSE ParseFail

\* The items of an array, the first at toks[i]; acc holds those read so far.
ParseItems(toks, i, acc) ==
  LET r == ParseValue(toks, i) IN
  IF ~r.ok \/ r.next > Len(toks) THEN ParseFail
  ELSE IF IsPunct(toks[r.next], ",")
       THEN ParseItems(toks, r.next + 1, Append(acc, r.v))
  ELSE IF IsPunct(toks[r.next], "]")
       THEN [ok |-> TRUE, v |-> Append(acc, r.v), next |-> r.next + 1]
  ELSE ParseFail

\* The members of an object, the first key at toks[i].
ParseMembers(toks, i, acc) ==
  IF i + 1 > Len(toks) \/ toks[i].t # "key" \/ ~IsPunct(toks[i + 1], ":")
  THEN ParseFail
  ELSE LET r == ParseValue(toks, i + 2) IN
    IF ~r.ok \/ r.next > Len(toks) THEN ParseFail
    ELSE IF IsPunct(toks[r.next], ",")
         THEN ParseMembers(toks, r.next + 1, Append(acc, <<toks[i].k, r.v>>))
    ELSE IF IsPunct(toks[r.next], "}")
         THEN [ok |-> TRUE, v |-> DictOf(Append(acc, <<toks[i].k, r.v>>)),
               next |-> r.next + 1]
    ELSE ParseFail

\* json.load of a whole file: one value and nothing after it, else it raises.
JsonLoad(toks) ==
  LET r == ParseValue(toks, 1) IN
  IF r.ok /\ r.next = Len(toks) + 1
  THEN [ok |-> TRUE, v |-> r.v]
  ELSE [ok |-> FALSE, v |-> <<>>]

(* ----------------------- the PDF files on disk ------------------------ *)

sChapter == <<"C", "h", "a", "p", "t", "e", "r">>

TitleOne == sChapter \o <<"1">>
TitleTwo == sChapter \o <<"2">>
TitleUpper == <<"A", "B">>

NL == <<"\n">>

sGoal == <<"g", "o", "a", "l">>
sLearningGoal == <<"l", "e", "a", "r", "n", "i", "n", "g", " ">> \o sGoal
sHomework == <<"h", "o", "m", "e", "w", "o", "r", "k">>
sPractice == <<"p", "r", "a", "c", "t", "i", "c", "e">>
sReview == <<"r", "e", "v", "i", "e", "w">>
sQuestion == <<"q", "u", "e", "s", "t", "i", "o", "n">>
\* The Hangul phrases of the source, by code point.
kLearningGoal == <<"U+D559", "U+C2B5", " ", "U+BAA9", "U+D45C">>
kGoal == <<"U+BAA9", "U+D45C">>
kHomework == <<"U+C219", "U+C81C">>
kAssignment == <<"U+ACFC", "U+C81C">>
kReview == <<"U+BCF5", "U+C2B5">>
kProblem == <<"U+BB38", "U+C81C">>

PathA == <<"d", "/", "a">>
PathB == <<"d", "/", "b">>
PathC == <<"d", "/", "c">>
PathMissing == <<"d", "/", "m">>
\* Three more files with the base name of PathC: a copy of it in another
\* directory, a file with the bytes of PathB, and a file with other bytes
\* whose MD5 digest is that of PathC's.
PathCopy == <<"e", "/", "c">>
PathRenamed == <<"f", "/", "c">>
PathCollision == <<"g", "/", "c">>

\* The paths a command line may name, and those that exist.
Paths == {PathA, PathB, PathC, PathMissing}
\* The paths of the command lines that exercise the extraction cache.
CachePaths == {PathB, PathC, PathCopy, PathRenamed, PathCollision}
\* The paths of the command lines whose rows are published.
SheetPaths == {PathA, PathB, PathMissing}
ExistingPaths == {PathA, PathB, PathC, PathCopy, PathRenamed, PathCollision}

PathExists(pdf_path) == pdf_path \in ExistingPaths

\* The bytes of each file (f.read() in _get_cache_key), as a number.
FileBytes(pdf_path) ==
  IF pdf_path = PathA THEN 1
  ELSE IF pdf_path \in {PathB, PathRenamed} THEN 2
  ELSE IF pdf_path = PathCollision THEN 5
  ELSE 3

\* page.get_text() of each page of the document with these bytes.
\* File 1: three headings over two pages; file 2: one heading, with the
\* title of file 1's first; files 3 and 5: no heading (file 3 has a plain
\* line, an empty line and a line that begins with a lower-case "chapter").
PageTexts(bytes) ==
  IF bytes = 1 THEN
    << TitleOne \o NL \o <<" ", "a", " ", "t", "o", "p", "i", "c", " ">>
         \o NL \o TitleUpper \o NL \o <<"x">>,
       <<" ">> \o TitleTwo \o NL \o sHomework \o <<" ", "1">> >>
  ELSE IF bytes = 2 THEN
    << <<"p", "r", "e">> \o NL \o TitleOne \o NL \o <<"b", "b">> >>
  ELSE IF bytes = 5 THEN
    << <<"b", "y", "e">> >>
  ELSE
    << <<"h", "e", "l", "l", "o">> \o NL \o NL
         \o <<"c", "h", "a", "p", "t", "e", "r", " ", "x">> >>

\* hashlib.md5(...).hexdigest(): a digest of fixed width per content. MD5
\* is not injective: contents 3 and 5 stand for a pair of files with the
\* same digest.
Md5Hex(bytes) == <<"h">> \o IntToStr(IF bytes = 5 THEN 3 ELSE bytes)

(* ---------------------- documents, line by line ----------------------- *)

\* The lines generated documents are made of: two headings (one by its
\* prefix, one by its upper case, with a blank before it), the empty line,
\* a line with the words "practice" and "goal", a line with "Learning
\* goal", and a line with "Homework", "review" and "question".
LinePracticeGoal == <<" ">> \o sPractice \o <<" ">> \o sGoal \o <<" ">>
LineLearningGoal == <<"L">> \o Tail(sLearningGoal)
LineHomeworkReview ==
  <<"H">> \o Tail(sHomework) \o <<" ">> \o sReview \o <<" ">> \o sQuestion

DocLines ==
  { TitleOne,
    <<" ">> \o TitleUpper,
    <<>>,
    LinePracticeGoal,
    LineLearningGoal,
    LineHomeworkReview }

\* The text of a page with these lines.
RECURSIVE JoinLines(_)
JoinLines(lines) ==
  IF Len(lines) = 1 THEN lines[1]
  ELSE lines[1] \o NL \o JoinLines(Tail(lines))

\* The page texts of a document with these lines, a page ending after each
\* line whose index is in breaks; cur holds the lines of the page being
\* filled, k is the next line.
RECURSIVE Paginate(_, _, _, _)
Paginate(lines, breaks, k, cur) ==
  IF k > Len(lines) THEN <<JoinLines(cur)>>
  ELSE IF (k - 1) \in breaks
       THEN <<JoinLines(cur)>> \o Paginate(lines, breaks, k + 1, <<lines[k]>>)
  ELSE Paginate(lines, breaks, k + 1, Append(cur, lines[k]))

\* Every document of 1..MaxDocLines lines of DocLines, as its page texts.
DocumentTexts ==
  UNION { { Paginate(lines, breaks, 2, <<lines[1]>>) :
              lines \in [1..n -> DocLines], breaks \in SUBSET (1..(n - 1)) } :
          n \in 1..MaxDocLines }

(* --------------------------- PDFProcessor ----------------------------- *)

\* Mutant of _get_cache_key: the key is the base name without the digest.
CacheKeyWithoutDigest(pdf_path) ==
  Basename(pdf_path)

_get_cache_key(pdf_path) ==
  Basename(pdf_path) \o <<"_">> \o Md5Hex(FileBytes(pdf_path))

CacheKeys == {_get_cache_key(p) : p \in ExistingPaths}

\* The result of extract_text_from_pdf for a document with these page texts.
ExtractionOf(pdf_path, texts) ==
  [file_path   |-> pdf_path,
   file_name   |-> Basename(pdf_path),
   total_pages |-> Len(texts),
   pages       |-> [n \in 1..Len(texts) |->
                     [page_number |-> n, text |-> texts[n], images |-> <<>>]]]

\* The extraction proper of extract_text_from_pdf (fitz), without the cache.
ExtractPages(pdf_path) == ExtractionOf(pdf_path, PageTexts(FileBytes(pdf_path)))

\* json.dump(data, f) of an extraction result.
DumpExtraction(data) ==
  DumpObject(<<
    <<"file_path", <<TStr(data.file_path)>> >>,
    <<"file_name", <<TStr(data.file_name)>> >>,
    <<"total_pages", <<TNum(data.total_pages)>> >>,
    <<"pages", DumpArray([n \in 1..Len(data.pages) |->
        DumpObject(<<
          <<"page_number", <<TNum(data.pages[n].page_number)>> >>,
          <<"text", <<TStr(data.pages[n].text)>> >>,
          <<"images", DumpArray(<<>>)>> >>)])>> >>)

_is_chapter_heading(line) ==
  \/ StartsWith(line, sChapter)
  \/ StartsWith(line, <<"U+C81C">>)
  \/ StartsWith(line, <<"U+B2E8", "U+C6D0">>)
  \/ (Len(line) < 50 /\ IsUpper(line))

\* Every line of the document in order, each with its page number.
RECURSIVE PageLines(_)
PageLines(pages) ==
  IF pages = <<>> THEN <<>>
  ELSE LET lines == SplitLines(Head(pages).text) IN
       [k \in 1..Len(lines) |->
          [page_number |-> Head(pages).page_number, line |-> Strip(lines[k])]]
       \o PageLines(Tail(pages))

\* Mutant of SegmentFrom: empty lines are not appended to the content.
RECURSIVE SegmentSkippingEmpty(_, _, _, _, _)
SegmentSkippingEmpty(lines, k, chapters, cur, open) ==
  IF k > Len(lines) THEN (IF open THEN Append(chapters, cur) ELSE chapters)
  ELSE IF _is_chapter_heading(lines[k].line) THEN
    SegmentSkippingEmpty(lines, k + 1,
                IF open THEN Append(chapters, cur) ELSE chapters,
                [title |-> lines[k].line,
                 start_page |-> lines[k].page_number,
                 content |-> <<>>],
                TRUE)
  ELSE IF open /\ lines[k].line # <<>> THEN
    SegmentSkippingEmpty(lines, k + 1, chapters,
                [cur EXCEPT !.content = Append(@, lines[k].line)], TRUE)
  ELSE SegmentSkippingEmpty(lines, k + 1, chapters, cur, open)

\* The loop of extract_chapter_structure from line k on: chapters are those
\* closed so far, cur the open one (when open).
RECURSIVE SegmentFrom(_, _, _, _, _)
SegmentFrom(lines, k, chapters, cur, open) ==
  IF k > Len(lines) THEN (IF open THEN Append(chapters, cur) ELSE chapters)
  ELSE IF _is_chapter_heading(lines[k].line) THEN
    SegmentFrom(lines, k + 1,
                IF open THEN Append(chapters, cur) ELSE chapters,
                [title |-> lines[k].line,
                 start_page |-> lines[k].page_number,
                 content |-> <<>>],
                TRUE)
  ELSE IF open THEN
    SegmentFrom(lines, k + 1, chapters,
                [cur EXCEPT !.content = Append(@, lines[k].line)], TRUE)
  ELSE SegmentFrom(lines, k + 1, chapters, cur, open)

\* The trigger phrases of extract_metadata, by category.
LearningGoalTriggers == {sLearningGoal, kLearningGoal}
HomeworkTriggers == {sHomework, kHomework, kAssignment}
ReviewTriggers == {sReview, sQuestion, kReview, kProblem}

\* Mutant of MetadataEntries: a page gets an entry for each phrase its
\* lowered text holds.
RECURSIVE MetadataEntriesPerPhrase(_, _)
MetadataEntriesPerPhrase(pages, phrases) ==
  IF pages = <<>> THEN <<>>
  ELSE LET page == Head(pages)
           c == Cardinality({ph \in phrases : Contains(Lower(page.text), ph)})
       IN [i \in 1..c |-> [page |-> page.page_number, text |-> page.text]]
          \o MetadataEntriesPerPhrase(Tail(pages), phrases)

\* The pages whose lowered text holds one of the phrases, as entries.
MetadataEntries(pages, phrases) ==
  LET Triggered(page) == \E ph \in phrases : Contains(Lower(page.text), ph)
      hits == SelectSeq(pages, Triggered)
  IN [i \in 1..Len(hits) |->
        [page |-> hits[i].page_number, text |-> hits[i].text]]

extract_metadata(extracted_data) ==
  [learning_goals   |-> MetadataEntries(extracted_data.pages,
                                        LearningGoalTriggers),
   homework_tasks   |-> MetadataEntries(extracted_data.pages,
                                        HomeworkTriggers),
   review_questions |-> MetadataEntries(extracted_data.pages,
                                        ReviewTriggers)]

NoChapter == [title |-> <<>>, start_page |-> 0, content |-> <<>>]

\* Mutant of extract_chapter_structure: a document without a heading is one
\* untitled chapter.
ChapterStructureOrWholeDocument(extracted_data) ==
  LET lines == PageLines(extracted_data.pages)
      chapters == SegmentFrom(lines, 1, <<>>, NoChapter, FALSE)
  IN IF chapters # <<>> THEN chapters
     ELSE << [title |-> <<>>, start_page |-> 1,
              content |-> [k \in 1..Len(lines) |-> lines[k].line]] >>

\* Mutant of extract_chapter_structure: the chapter open at the end of the
\* document is not added.
ChapterStructureWithoutLast(extracted_data) ==
  LET chapters == SegmentFrom(PageLines(extracted_data.pages), 1, <<>>,
                              NoChapter, FALSE)
  IN SubSeq(chapters, 1, Len(chapters) - 1)

extract_chapter_structure(extracted_data) ==
  SegmentFrom(PageLines(extracted_data.pages), 1, <<>>, NoChapter, FALSE)

(* --------------------------- DataProcessor ---------------------------- *)

DefaultContext ==
  [processed_files |-> <<>>,
   chapters        |-> <<>>,
   current_chapter |-> PyNone,
   session_counter |-> 0]

\* Mutant of DumpContext: every history entry is written with the current
\* counter as its session.
DumpContextCounterAsSession(context) ==
  DumpObject(<<
    <<"processed_files",
      DumpArray([i \in 1..Len(context.processed_files) |->
                  <<TStr(context.processed_files[i])>>])>>,
    <<"chapters",
      DumpArray([i \in 1..Len(context.chapters) |->
        DumpObject(<<
          <<"title", <<TStr(context.chapters[i].title)>> >>,
          <<"session", <<TNum(context.session_counter)>> >> >>)])>>,
    <<"current_chapter",
      IF context.current_chapter = PyNone THEN <<TNull>>
      ELSE <<TStr(context.current_chapter)>> >>,
    <<"session_counter", <<TNum(context.session_counter)>> >> >>)

\* json.dump(self.context, f) in _save_context.
DumpContext(context) ==
  DumpObject(<<
    <<"processed_files",
      DumpArray([i \in 1..Len(context.processed_files) |->
                  <<TStr(context.processed_files[i])>>])>>,
    <<"chapters",
      DumpArray([i \in 1..Len(context.chapters) |->
        DumpObject(<<
          <<"title", <<TStr(context.chapters[i].title)>> >>,
          <<"session", <<TNum(context.chapters[i].session)>> >> >>)])>>,
    <<"current_chapter",
      IF context.current_chapter = PyNone THEN <<TNull>>
      ELSE <<TStr(context.current_chapter)>> >>,
    <<"session_counter", <<TNum(context.session_counter)>> >> >>)

\* Python's == on two dicts: the same keys with equal values.
DictEq(d1, d2) ==
  /\ DOMAIN d1 = DOMAIN d2
  /\ \A k \in DOMAIN d1 : d1[k] = d2[k]

\* `chapter not in self.context['chapters']`
NotInHistory(chapter, history) ==
  \A i \in 1..Len(history) : ~DictEq(chapter, history[i])

_extract_page_range(chapter, extracted_data) ==
  IntToStr(chapter.start_page) \o <<"-">> \o IntToStr(extracted_data.total_pages)

RECURSIVE FirstSubtopic(_)
FirstSubtopic(lines) ==
  IF lines = <<>> THEN <<>>
  ELSE IF Head(lines) # <<>> /\ Len(Head(lines)) > 5 /\ Len(Head(lines)) < 100
       THEN Head(lines)
  ELSE FirstSubtopic(Tail(lines))

_extract_subtopic(chapter) ==
  FirstSubtopic(SubSeq(chapter.content, 1,
                       IF Len(chapter.content) < 5 THEN Len(chapter.content) ELSE 5))

\* The first line of lines that holds a keyword, stripped, as a list of
\* zero or one line (the source tests a Hangul keyword on the line as it is
\* or lowered; lowering leaves Hangul as it is).
RECURSIVE FirstKeywordLine(_, _)
FirstKeywordLine(lines, keywords) ==
  IF lines = <<>> THEN <<>>
  ELSE IF \E kw \in keywords : Contains(Lower(Head(lines)), kw)
       THEN <<Strip(Head(lines))>>
  ELSE FirstKeywordLine(Tail(lines), keywords)

\* Mutant of KeywordLines: the entries of every page are taken.
RECURSIVE KeywordLinesOfEveryPage(_, _, _)
KeywordLinesOfEveryPage(entries, start_page, keywords) ==
  IF entries = <<>> THEN <<>>
  ELSE FirstKeywordLine(SplitLines(Head(entries).text), keywords)
       \o KeywordLinesOfEveryPage(Tail(entries), start_page, keywords)

\* The loop shared by _extract_learning_goals, _extract_homework and
\* _extract_check_test: one line per entry on a page >= start_page.
RECURSIVE KeywordLines(_, _, _)
KeywordLines(entries, start_page, keywords) ==
  IF entries = <<>> THEN <<>>
  ELSE (IF Head(entries).page >= start_page
        THEN FirstKeywordLine(SplitLines(Head(entries).text), keywords)
        ELSE <<>>)
       \o KeywordLines(Tail(entries), start_page, keywords)

\* The keywords a line is tested for, by category.
LearningGoalKeywords == {sGoal, kGoal}
HomeworkKeywords == {sHomework, kHomework, kAssignment, sPractice}
CheckTestKeywords == {sQuestion, sReview, kProblem, kReview}

_extract_learning_goals(chapter, metadata) ==
  JoinBar(KeywordLines(metadata.learning_goals, chapter.start_page,
                       LearningGoalKeywords))

_extract_homework(chapter, metadata) ==
  JoinBar(KeywordLines(metadata.homework_tasks, chapter.start_page,
                       HomeworkKeywords))

_extract_check_test(chapter, metadata) ==
  JoinBar(KeywordLines(metadata.review_questions, chapter.start_page,
                       CheckTestKeywords))

\* Mutant of MakeRow: the row is built before the counter is incremented.
MakeRowBeforeIncrement(context, chapter, extracted_data, metadata) ==
  << IntToStr(context.session_counter - 1),
     chapter.title,
     _extract_subtopic(chapter),
     _extract_page_range(chapter, extracted_data),
     _extract_learning_goals(chapter, metadata),
     _extract_homework(chapter, metadata),
     _extract_check_test(chapter, metadata),
     <<>>, <<>> >>

\* The row of one chapter; context holds the counter already incremented.
MakeRow(context, chapter, extracted_data, metadata) ==
  << IntToStr(context.session_counter),
     chapter.title,
     _extract_subtopic(chapter),
     _extract_page_range(chapter, extracted_data),
     _extract_learning_goals(chapter, metadata),
     _extract_homework(chapter, metadata),
     _extract_check_test(chapter, metadata),
     <<>>, <<>> >>

\* self.context['session_counter'] += 1
Counted(context) == [context EXCEPT !.session_counter = @ + 1]

\* One iteration of the chapter loop of process_pdf_data, on the context.
ChapterStep(context, chapter) ==
  LET counted == Counted(context) IN
  [counted EXCEPT
     !.current_chapter = chapter.title,
     !.chapters = IF NotInHistory(chapter, counted.chapters)
                  THEN Append(@, [title |-> chapter.title,
                                  session |-> counted.session_counter])
                  ELSE @]

\* Mutant of RegisterFile: the name is appended without the membership test.
RegisterFileAlways(context, file_name) ==
  [context EXCEPT !.processed_files = Append(@, file_name)]

\* The file-name update that opens process_pdf_data.
RegisterFile(context, file_name) ==
  IF file_name \notin Range(context.processed_files)
  THEN [context EXCEPT !.processed_files = Append(@, file_name)]
  ELSE context

(* ------------------------------ state --------------------------------- *)

VARIABLES
  ctxFile,        \* cache/document_context.json: [exists, data (tokens)]
  cacheFiles,     \* the extraction cache: cache key -> [exists, data]
  pc,             \* where the running process is; "off" when none runs
  args,           \* the parsed command line of the running process
  context,        \* DataProcessor.context of the running process
  idx,            \* PDFs of the command line already processed
  call,           \* the frame of the process_pdf call in progress
  ret,            \* where _save_context returns to
  err,            \* how the last process ended: [type, at]
  issued,         \* history: session fields of the rows emitted since the last
                  \* reset (an interruption ends the history too)
  processedSince, \* history: file names given to process_pdf_data since then
  lastSaved,      \* history: the context of the last _save_context that completed
  credentials,    \* the credentials file (or a valid token) exists
  sheet,          \* the spreadsheet the running process writes to
  lost            \* history: the rows of the last publication that failed

vars == <<ctxFile, cacheFiles, pc, args, context, idx, call, ret, err,
          issued, processedSince, lastSaved, credentials, sheet, lost>>

sheetVars == <<credentials, sheet, lost>>

NoFile == [exists |-> FALSE, data |-> <<>>]
FileOf(tokens) == [exists |-> TRUE, data |-> tokens]

NoArgs == [reset_context |-> FALSE, no_cache |-> FALSE, nfiles |-> 0,
           spreadsheet_id |-> PyNone]
NoErr == [type |-> "", at |-> ""]

NoCall ==
  [pdf_path |-> <<>>, spreadsheet_id |-> PyNone, use_cache |-> FALSE,
   extracted_data |-> <<>>,
   chapters |-> <<>>, metadata |-> <<>>, i |-> 0, rows |-> <<>>,
   from_cache |-> FALSE,         \* history: the extraction came from the cache
   context0 |-> DefaultContext,  \* history: the context when the call began
   ctxFile0 |-> NoFile]          \* history: the context file when it began

\* The spreadsheet a process writes to: its id, its rows, the rows it had
\* when the process began, and (history) whether the process created it,
\* how often it wrote the header row, and the session counter the process
\* began with.
NoSheet ==
  [id |-> PyNone, values |-> <<>>, prior |-> <<>>, created |-> FALSE,
   header_writes |-> 0, base |-> 0]

NoLost == [file_name |-> <<>>, sessions |-> <<>>]

\* The id create_spreadsheet returns, and the id of a spreadsheet that
\* exists before the run.
NewId == <<"s", "1">>
ExistingId == <<"s", "0">>

\* The header row of setup_headers (the English part of each cell).
Headers ==
  << <<"S", "e", "s", "s", "i", "o", "n">>,
     <<"M", "a", "j", "o", "r", " ", "U", "n", "i", "t">>,
     <<"S", "u", "b", "t", "o", "p", "i", "c">>,
     <<"P", "a", "g", "e", " ", "R", "a", "n", "g", "e">>,
     <<"L", "e", "a", "r", "n", "i", "n", "g", " ", "G", "o", "a", "l", "s">>,
     <<"H", "o", "m", "e", "w", "o", "r", "k">>,
     <<"C", "h", "e", "c", "k", " ", "T", "e", "s", "t">>,
     <<"D", "a", "t", "e">>,
     <<"S", "t", "a", "t", "u", "s">> >>

\* A row an existing spreadsheet holds.
OldRow ==
  << <<"9">>, <<"O", "l", "d">>, <<>>, <<"1", "-", "1">>, <<>>, <<>>, <<>>,
     <<>>, <<>> >>

\* What the spreadsheet named by --spreadsheet-id may hold.
ExistingSheetValues == { <<>>, <<Headers, OldRow>> }

\* No process runs, nothing is on disk; has_credentials tells whether the
\* Google credentials are in place.
InitWith(has_credentials) ==
  /\ ctxFile = NoFile
  /\ cacheFiles = [k \in CacheKeys |-> NoFile]
  /\ pc = "off"
  /\ args = NoArgs
  /\ context = DefaultContext
  /\ idx = 0
  /\ call = NoCall
  /\ ret = ""
  /\ err = NoErr
  /\ issued = <<>>
  /\ processedSince = {}
  /\ lastSaved = DefaultContext
  /\ credentials = has_credentials
  /\ sheet = NoSheet
  /\ lost = NoLost

Init == InitWith(FALSE)

InitSheets == InitWith(TRUE)

\* process_pdf has extracted, without the cache, a document of
\* DocumentTexts named alone on the command line; no context file exists.
InitDoc ==
  /\ ctxFile = NoFile
  /\ cacheFiles = [k \in CacheKeys |-> NoFile]
  /\ pc = "analyze"
  /\ args = [reset_context |-> FALSE, no_cache |-> TRUE, nfiles |-> 1]
  /\ context = DefaultContext
  /\ idx = 0
  /\ \E texts \in DocumentTexts :
       call = [NoCall EXCEPT !.pdf_path = PathA,
                             !.extracted_data = ExtractionOf(PathA, texts)]
  /\ ret = ""
  /\ err = NoErr
  /\ issued = <<>>
  /\ processedSince = {}
  /\ lastSaved = DefaultContext
  /\ credentials = FALSE
  /\ sheet = NoSheet
  /\ lost = NoLost

\* The process ends with an uncaught exception.
Raise(type, at) ==
  /\ pc' = "off"
  /\ err' = [type |-> type, at |-> at]
  /\ args' = NoArgs
  /\ idx' = 0
  /\ ret' = ""

\* _load_context: the default when the file is absent, else json.load of it.
LoadContext(file) ==
  IF file.exists THEN JsonLoad(file.data)
  ELSE [ok |-> TRUE, v |-> DefaultContext]

(* ------------------------------- main --------------------------------- *)

\* main: parse the command line and construct the creator (DataProcessor's
\* __init__ loads the context).
Start(reset_context, no_cache, nfiles, spreadsheet_id) ==
  /\ pc = "off"
  /\ LET loaded == LoadContext(ctxFile) IN
     IF loaded.ok
     THEN /\ context' = loaded.v
          /\ args' = [reset_context |-> reset_context, no_cache |-> no_cache,
                      nfiles |-> nfiles, spreadsheet_id |-> spreadsheet_id]
          /\ pc' = IF reset_context THEN "reset" ELSE "next_pdf"
          /\ err' = NoErr
          /\ idx' = 0
          /\ ret' = ""
          /\ LET base == loaded.v.session_counter
             IN IF nfiles = 1 /\ spreadsheet_id # PyNone
                THEN \E prior \in ExistingSheetValues :
                       sheet' = [NoSheet EXCEPT !.id = spreadsheet_id,
                                                 !.values = prior,
                                                 !.prior = prior,
                                                 !.base = base]
                ELSE sheet' = [NoSheet EXCEPT !.base = base]
     ELSE /\ Raise("JSONDecodeError", "_load_context")
          /\ context' = DefaultContext
          /\ sheet' = NoSheet
  /\ call' = NoCall
  /\ UNCHANGED <<ctxFile, cacheFiles, issued, processedSince, lastSaved,
                 credentials, lost>>

\* Mutant of ResetContext: the context is reset in memory and not saved.
ResetContextNotSaved ==
  /\ pc = "reset"
  /\ context' = DefaultContext
  /\ issued' = <<>>
  /\ processedSince' = {}
  /\ call' = [NoCall EXCEPT !.context0 = context, !.ctxFile0 = ctxFile]
  /\ pc' = "next_pdf"
  /\ lost' = NoLost
  /\ sheet' = [sheet EXCEPT !.base = 0]
  /\ UNCHANGED <<ctxFile, cacheFiles, args, idx, ret, err, lastSaved,
                 credentials>>

\* reset_context, up to its call of _save_context.
ResetContext ==
  /\ pc = "reset"
  /\ context' = DefaultContext
  /\ issued' = <<>>
  /\ processedSince' = {}
  /\ call' = [NoCall EXCEPT !.context0 = context, !.ctxFile0 = ctxFile]
  /\ pc' = "save_open"
  /\ ret' = "next_pdf"
  /\ lost' = NoLost
  /\ sheet' = [sheet EXCEPT !.base = 0]
  /\ UNCHANGED <<ctxFile, cacheFiles, args, idx, err, lastSaved,
                 credentials>>

\* _save_context: open(self.context_file, 'w') truncates the file.
SaveOpen ==
  /\ pc = "save_open"
  /\ ctxFile' = FileOf(<<>>)
  /\ pc' = "save_write"
  /\ UNCHANGED <<cacheFiles, args, context, idx, call, ret, err,
                 issued, processedSince, lastSaved>>
  /\ UNCHANGED sheetVars

\* _save_context: json.dump and the close of the file.
SaveWrite ==
  /\ pc = "save_write"
  /\ ctxFile' = FileOf(DumpContext(context))
  /\ lastSaved' = context
  /\ pc' = ret
  /\ ret' = ""
  /\ UNCHANGED <<cacheFiles, args, context, idx, call, err,
                 issued, processedSince>>
  /\ UNCHANGED sheetVars

\* use_cache as the caller passes it: main passes `not args.no_cache` to
\* process_pdf for one PDF; process_multiple_pdfs passes nothing (default True).
UseCacheArg(a) == IF a.nfiles = 1 THEN ~a.no_cache ELSE TRUE

\* spreadsheet_id as the caller passes it: main passes args.spreadsheet_id
\* to process_pdf for one PDF; process_multiple_pdfs passes the id of the
\* spreadsheet it created (None without credentials).
SpreadsheetIdArg(a, s) == IF a.nfiles = 1 THEN a.spreadsheet_id ELSE s.id

\* The chapters process_pdf will find in pdf_path (to bound the counter).
ChaptersOf(pdf_path) ==
  IF PathExists(pdf_path)
  THEN Len(extract_chapter_structure(ExtractPages(pdf_path))) ELSE 0

\* main / the loop of process_multiple_pdfs: call process_pdf on the next path.
NextPdf(pdf_path) ==
  /\ pc = "next_pdf"
  /\ idx < args.nfiles
  /\ context.session_counter + ChaptersOf(pdf_path) <= MaxSession
  /\ Len(issued) + ChaptersOf(pdf_path) <= MaxSession
  /\ (args.nfiles > 1 /\ credentials) => sheet.id # PyNone
  /\ call' = [NoCall EXCEPT !.pdf_path = pdf_path,
                            !.spreadsheet_id = SpreadsheetIdArg(args, sheet),
                            !.use_cache = UseCacheArg(args),
                            !.context0 = context,
                            !.ctxFile0 = ctxFile]
  /\ pc' = "check_exists"
  /\ UNCHANGED <<ctxFile, cacheFiles, args, context, idx, ret, err,
                 issued, processedSince, lastSaved>>
  /\ UNCHANGED sheetVars

\* main returns after the last PDF.
Exit ==
  /\ pc = "next_pdf"
  /\ idx = args.nfiles
  /\ pc' = "off"
  /\ args' = NoArgs
  /\ idx' = 0
  /\ context' = DefaultContext
  /\ sheet' = NoSheet
  /\ UNCHANGED <<ctxFile, cacheFiles, call, ret, err,
                 issued, processedSince, lastSaved, credentials, lost>>

(* ---------------------------- process_pdf ----------------------------- *)

\* Mutant of CheckExists: the file name is registered before the check.
CheckExistsAfterRegistering ==
  /\ pc = "check_exists"
  /\ context' = RegisterFile(context, Basename(call.pdf_path))
  /\ IF PathExists(call.pdf_path)
     THEN /\ pc' = "extract"
          /\ UNCHANGED <<args, idx, ret, err>>
     ELSE /\ pc' = "off"
          /\ err' = [type |-> "FileNotFoundError", at |-> "process_pdf"]
          /\ UNCHANGED <<args, idx, ret>>
  /\ UNCHANGED <<ctxFile, cacheFiles, call, issued, processedSince, lastSaved>>
  /\ UNCHANGED sheetVars

\* process_pdf: `if not os.path.exists(pdf_path): raise FileNotFoundError`;
\* main prints the error and exits.
CheckExists ==
  /\ pc = "check_exists"
  /\ IF PathExists(call.pdf_path)
     THEN /\ pc' = "extract"
          /\ UNCHANGED <<args, idx, ret, err>>
     ELSE /\ pc' = "off"
          /\ err' = [type |-> "FileNotFoundError", at |-> "process_pdf"]
          /\ UNCHANGED <<args, idx, ret>>
  /\ UNCHANGED <<ctxFile, cacheFiles, context, call,
                 issued, processedSince, lastSaved>>
  /\ UNCHANGED sheetVars

\* extract_text_from_pdf up to its call of _save_to_cache: the cache lookup
\* and, on a miss, the extraction.
ExtractText ==
  /\ pc = "extract"
  /\ LET key == _get_cache_key(call.pdf_path)
         hit == call.use_cache /\ cacheFiles[key].exists
         cached == JsonLoad(cacheFiles[key].data)
     IN IF hit /\ ~cached.ok
        THEN /\ Raise("JSONDecodeError", "extract_text_from_pdf")
             /\ call' = call
        ELSE IF hit /\ DOMAIN cached.v # {}
        THEN /\ call' = [call EXCEPT !.extracted_data = cached.v,
                                     !.from_cache = TRUE]
             /\ pc' = "analyze"
             /\ UNCHANGED <<args, idx, ret, err>>
        ELSE /\ call' = [call EXCEPT !.extracted_data = ExtractPages(call.pdf_path)]
             /\ pc' = IF call.use_cache THEN "cache_open" ELSE "analyze"
             /\ UNCHANGED <<args, idx, ret, err>>
  /\ UNCHANGED <<ctxFile, cacheFiles, context, issued, processedSince, lastSaved>>
  /\ UNCHANGED sheetVars

\* _save_to_cache: open(cache_path, 'w') truncates the cache file.
CacheOpen ==
  /\ pc = "cache_open"
  /\ cacheFiles' = [cacheFiles EXCEPT ![_get_cache_key(call.pdf_path)] = FileOf(<<>>)]
  /\ pc' = "cache_write"
  /\ UNCHANGED <<ctxFile, args, context, idx, call, ret, err,
                 issued, processedSince, lastSaved>>
  /\ UNCHANGED sheetVars

\* _save_to_cache: json.dump and the close of the file.
CacheWrite ==
  /\ pc = "cache_write"
  /\ cacheFiles' = [cacheFiles EXCEPT ![_get_cache_key(call.pdf_path)] =
                      FileOf(DumpExtraction(call.extracted_data))]
  /\ pc' = "analyze"
  /\ UNCHANGED <<ctxFile, args, context, idx, call, ret, err,
                 issued, processedSince, lastSaved>>
  /\ UNCHANGED sheetVars

\* process_pdf, steps 2 and 3: the chapter structure and the metadata.
Analyze ==
  /\ pc = "analyze"
  /\ call' = [call EXCEPT
                !.chapters = extract_chapter_structure(call.extracted_data),
                !.metadata = extract_metadata(call.extracted_data)]
  /\ pc' = "pd_begin"
  /\ UNCHANGED <<ctxFile, cacheFiles, args, context, idx, ret, err,
                 issued, processedSince, lastSaved>>
  /\ UNCHANGED sheetVars

(* -------------------------- process_pdf_data -------------------------- *)

\* process_pdf_data up to its loop: rows = [] and the file name.
PdBegin ==
  /\ pc = "pd_begin"
  /\ context' = RegisterFile(context, call.extracted_data.file_name)
  /\ processedSince' = processedSince \cup {call.extracted_data.file_name}
  /\ call' = [call EXCEPT !.i = 1, !.rows = <<>>]
  /\ pc' = "pd_loop"
  /\ UNCHANGED <<ctxFile, cacheFiles, args, idx, ret, err, issued, lastSaved>>
  /\ UNCHANGED sheetVars

\* One iteration of `for chapter in chapters`.
PdChapter ==
  /\ pc = "pd_loop"
  /\ call.i <= Len(call.chapters)
  /\ LET chapter == call.chapters[call.i]
         after == ChapterStep(context, chapter)
         row == MakeRow(Counted(context), chapter, call.extracted_data,
                        call.metadata)
     IN /\ context' = after
        /\ call' = [call EXCEPT !.i = @ + 1, !.rows = Append(@, row)]
        /\ issued' = Append(issued, row[1])
  /\ UNCHANGED <<ctxFile, cacheFiles, pc, args, idx, ret, err,
                 processedSince, lastSaved>>
  /\ UNCHANGED sheetVars

\* Mutant of PdSave: process_pdf_data returns without saving the context.
PdSaveSkipped ==
  /\ pc = "pd_loop"
  /\ call.i > Len(call.chapters)
  /\ pc' = "step5"
  /\ UNCHANGED <<ctxFile, cacheFiles, args, context, idx, call, ret, err,
                 issued, processedSince, lastSaved>>
  /\ UNCHANGED sheetVars

\* Mutant of PdSave: in a batch the context is saved with the last document
\* only.
PdSaveAtEndOfBatch ==
  /\ pc = "pd_loop"
  /\ call.i > Len(call.chapters)
  /\ pc' = IF idx + 1 < args.nfiles THEN "step5" ELSE "save_open"
  /\ ret' = IF idx + 1 < args.nfiles THEN ret ELSE "step5"
  /\ UNCHANGED <<ctxFile, cacheFiles, args, context, idx, call, err,
                 issued, processedSince, lastSaved>>
  /\ UNCHANGED sheetVars

\* The loop is over: process_pdf_data calls _save_context.
PdSave ==
  /\ pc = "pd_loop"
  /\ call.i > Len(call.chapters)
  /\ pc' = "save_open"
  /\ ret' = "step5"
  /\ UNCHANGED <<ctxFile, cacheFiles, args, context, idx, call, err,
                 issued, processedSince, lastSaved>>
  /\ UNCHANGED sheetVars

\* process_pdf, step 5 with no credentials file (_init_sheets_writer returns
\* False): nothing is published, process_pdf returns.
Step5 ==
  /\ pc = "step5"
  /\ ~credentials
  /\ idx' = idx + 1
  /\ call' = NoCall
  /\ pc' = "next_pdf"
  /\ UNCHANGED <<ctxFile, cacheFiles, args, context, ret, err,
                 issued, processedSince, lastSaved>>
  /\ UNCHANGED sheetVars

(* -------------------------- Google Sheets ----------------------------- *)

\* An HttpError leaves the process: main prints the error and exits.
Fail(at) ==
  /\ pc' = "off"
  /\ err' = [type |-> "HttpError", at |-> at]
  /\ UNCHANGED <<args, idx, ret>>

\* create_spreadsheet has returned the id of a new, empty spreadsheet.
Created == [sheet EXCEPT !.id = NewId, !.values = <<>>, !.created = TRUE]

\* write_data(spreadsheet_id, "Sheet1!A1:I1", headers): the first row is set.
HeaderWritten(s) ==
  [s EXCEPT !.values = IF @ = <<>> THEN <<Headers>> ELSE [@ EXCEPT ![1] = Headers],
            !.header_writes = @ + 1]

\* The rows of the call in progress, when their publication fails.
LostRows ==
  IF call.rows = <<>> THEN lost
  ELSE [file_name |-> call.extracted_data.file_name,
        sessions |-> [j \in 1..Len(call.rows) |-> call.rows[j][1]]]

\* process_multiple_pdfs with credentials, before its loop:
\* create_spreadsheet.
BatchCreate ==
  /\ pc = "next_pdf"
  /\ args.nfiles > 1 /\ idx = 0
  /\ credentials
  /\ sheet.id = PyNone
  /\ \/ /\ sheet' = Created
        /\ pc' = "batch_headers"
        /\ UNCHANGED <<args, idx, ret, err>>
     \/ /\ Fail("create_spreadsheet")
        /\ sheet' = sheet
  /\ UNCHANGED <<ctxFile, cacheFiles, context, call,
                 issued, processedSince, lastSaved, credentials, lost>>

\* process_pdf, step 5 with credentials and no spreadsheet_id:
\* create_spreadsheet.
Step5Create ==
  /\ pc = "step5"
  /\ credentials
  /\ call.spreadsheet_id = PyNone
  /\ \/ /\ sheet' = Created
        /\ call' = [call EXCEPT !.spreadsheet_id = NewId]
        /\ pc' = "headers"
        /\ UNCHANGED <<args, idx, ret, err, lost>>
     \/ /\ Fail("create_spreadsheet")
        /\ lost' = LostRows
        /\ UNCHANGED <<sheet, call>>
  /\ UNCHANGED <<ctxFile, cacheFiles, context,
                 issued, processedSince, lastSaved, credentials>>

\* setup_headers, called by process_pdf and by process_multiple_pdfs:
\* write_data of the header row, then the batchUpdate that formats it;
\* either request may fail.
SetupHeaders ==
  /\ pc \in {"headers", "batch_headers"}
  /\ \/ /\ sheet' = HeaderWritten(sheet)
        /\ pc' = IF pc = "headers" THEN "append" ELSE "next_pdf"
        /\ UNCHANGED <<args, idx, ret, err, lost>>
     \/ /\ Fail("setup_headers")
        /\ sheet' \in {sheet, HeaderWritten(sheet)}
        /\ lost' = IF pc = "headers" THEN LostRows ELSE lost
  /\ UNCHANGED <<ctxFile, cacheFiles, context, call,
                 issued, processedSince, lastSaved, credentials>>

\* Mutant of BatchAppendRows: the header row is written before every
\* append.
BatchAppendRowsAfterHeaders ==
  /\ \/ pc = "append"
     \/ pc = "step5" /\ credentials /\ call.spreadsheet_id # PyNone
  /\ \/ /\ sheet' = [HeaderWritten(sheet) EXCEPT !.values = @ \o call.rows]
        /\ idx' = idx + 1
        /\ call' = NoCall
        /\ pc' = "next_pdf"
        /\ UNCHANGED <<args, ret, err, lost>>
     \/ /\ Fail("batch_append_rows")
        /\ lost' = LostRows
        /\ UNCHANGED <<sheet, call>>
  /\ UNCHANGED <<ctxFile, cacheFiles, context,
                 issued, processedSince, lastSaved, credentials>>

\* process_pdf, step 5 with credentials: batch_append_rows of the rows to
\* the spreadsheet given or just created, and the return of process_pdf.
BatchAppendRows ==
  /\ \/ pc = "append"
     \/ pc = "step5" /\ credentials /\ call.spreadsheet_id # PyNone
  /\ \/ /\ sheet' = [sheet EXCEPT !.values = @ \o call.rows]
        /\ idx' = idx + 1
        /\ call' = NoCall
        /\ pc' = "next_pdf"
        /\ UNCHANGED <<args, ret, err, lost>>
     \/ /\ Fail("batch_append_rows")
        /\ lost' = LostRows
        /\ UNCHANGED <<sheet, call>>
  /\ UNCHANGED <<ctxFile, cacheFiles, context,
                 issued, processedSince, lastSaved, credentials>>

(* --------------------------- interruption ----------------------------- *)

\* A process is running.
Live == pc # "off"

\* process_pdf_data is past `rows = []` in the call in progress.
InProcessPdfData ==
  pc \in {"pd_loop", "save_open", "save_write", "step5"} /\ ret # "next_pdf"

\* What an interrupted write of `tokens` leaves on disk: whole buffers only.
CutPoints(tokens) ==
  {k \in 0..(Len(tokens) - 1) : k % FlushTokens = 0}

\* The process is killed (or the machine stops) at any step.
Crash ==
  /\ pc # "off"
  /\ \/ /\ pc = "save_write"
        /\ \E k \in CutPoints(DumpContext(context)) :
             ctxFile' = FileOf(SubSeq(DumpContext(context), 1, k))
        /\ UNCHANGED cacheFiles
     \/ /\ pc = "cache_write"
        /\ \E k \in CutPoints(DumpExtraction(call.extracted_data)) :
             cacheFiles' = [cacheFiles EXCEPT ![_get_cache_key(call.pdf_path)] =
               FileOf(SubSeq(DumpExtraction(call.extracted_data), 1, k))]
        /\ UNCHANGED ctxFile
     \/ /\ pc \notin {"save_write", "cache_write"}
        /\ UNCHANGED <<ctxFile, cacheFiles>>
  /\ Raise("Killed", IF pc = "pd_begin" \/ InProcessPdfData
                     THEN "process_pdf_data" ELSE "main")
  /\ context' = DefaultContext
  /\ call' = NoCall
  /\ issued' = <<>>
  /\ processedSince' = {}
  /\ UNCHANGED lastSaved
  /\ UNCHANGED sheetVars

(* -------------------------- specifications ---------------------------- *)

\* One step of process_pdf up to its step 5, or of the loop that calls it,
\* in an invocation whose command line names PDFs among paths.
StepOn(paths) ==
  \/ SaveOpen
  \/ SaveWrite
  \/ \E p \in paths : NextPdf(p)
  \/ Exit
  \/ CheckExists
  \/ ExtractText
  \/ CacheOpen
  \/ CacheWrite
  \/ Analyze
  \/ PdBegin
  \/ PdChapter
  \/ PdSave

\* The invocations without --spreadsheet-id.
StartAny ==
  \E r \in BOOLEAN, c \in BOOLEAN, n \in 1..MaxBatch : Start(r, c, n, PyNone)

Step == StartAny \/ ResetContext \/ StepOn(Paths) \/ Step5

Next == Step

\* Runs that are never interrupted.
Spec == Init /\ [][Next]_vars

NextCrash == Step \/ Crash

\* Runs that may be interrupted at any step.
SpecCrash == Init /\ [][NextCrash]_vars

\* Steps 2 to 4 of process_pdf.
NextDoc == Analyze \/ PdBegin \/ PdChapter \/ PdSave

\* process_pdf from step 2 on, on every document of DocumentTexts.
SpecDoc == InitDoc /\ [][NextDoc]_vars

NextCache == StartAny \/ ResetContext \/ StepOn(CachePaths) \/ Step5

\* Uninterrupted runs on files that share base names, bytes and digests.
SpecCache == Init /\ [][NextCache]_vars

\* The invocations with and without --spreadsheet-id.
StartPublishing ==
  \E r \in BOOLEAN, c \in BOOLEAN, n \in 1..MaxBatch,
     sid \in {PyNone, ExistingId} :
    Start(r, c, n, sid)

NextSheets ==
  \/ StartPublishing
  \/ ResetContext
  \/ StepOn(SheetPaths)
  \/ BatchCreate
  \/ Step5Create
  \/ SetupHeaders
  \/ BatchAppendRows

\* Uninterrupted runs with the Google credentials in place; any request to
\* the Sheets API may fail.
SpecSheets == InitSheets /\ [][NextSheets]_vars

(* ------------------------------ claims -------------------------------- *)

NoDuplicates(s) == \A i, j \in 1..Len(s) : s[i] = s[j] => i = j

\* C1: the session numbers handed out since the last reset are 1, 2, 3, ...
\* in the order the chapters were processed, across documents and across
\* invocations that share the context file; the counter is the number of
\* chapters processed since the reset (0 right after it); and the rows of a
\* document carry, in chapter order, the numbers that follow the counter the
\* call began with.
C1_SessionsConsecutive ==
  /\ \A j \in 1..Len(issued) : issued[j] = IntToStr(j)
  /\ Live => context.session_counter = Len(issued)
  /\ ~Live /\ err = NoErr => LoadContext(ctxFile).v.session_counter = Len(issued)
  /\ InProcessPdfData =>
       \A j \in 1..Len(call.rows) :
         /\ call.rows[j][1] = IntToStr(call.context0.session_counter + j)
         /\ call.rows[j][2] = call.chapters[j].title

\* C1 witness: a one-document invocation without reset has emitted the row
\* of session 4, the first three sessions having gone to an earlier
\* invocation's chapters.
C1_Witness ==
  /\ pc = "step5" /\ args.nfiles = 1 /\ ~args.reset_context
  /\ Len(call.rows) = 1
  /\ issued = <<IntToStr(1), IntToStr(2), IntToStr(3), IntToStr(4)>>

\* C2: after an interruption at any step of process_pdf_data, loading the
\* context file succeeds and gives the context of the last save that
\* completed: the one before the interrupted run, or the run's own.
C2_CrashKeepsSavedContext ==
  (~Live /\ err.type = "Killed" /\ err.at = "process_pdf_data") =>
    LET reloaded == LoadContext(ctxFile) IN
      reloaded.ok /\ reloaded.v = lastSaved

\* C3: no chapter title appears twice in the context's chapters history.
C3_TitlesUnique ==
  \A i, j \in 1..Len(context.chapters) :
    context.chapters[i].title = context.chapters[j].title => i = j

\* C4: loading the session context never raises.
C4_LoadNeverRaises ==
  ~(err.type = "JSONDecodeError" /\ err.at = "_load_context")

\* C5: extract_text_from_pdf never fails because of the cache: a cache file
\* that cannot be read is a miss.
C5_CacheFailureIsMiss ==
  err.at # "extract_text_from_pdf"

\* C6: process_pdf goes on only for a document that exists, and when it has
\* raised FileNotFoundError the context in memory and the context file are
\* what they were when the call began, the file still holding that context.
C6_MissingDocument ==
  /\ pc \in {"extract", "cache_open", "cache_write", "analyze", "pd_begin",
             "pd_loop", "step5"} => PathExists(call.pdf_path)
  /\ err.type = "FileNotFoundError" =>
       /\ pc = "off"
       /\ ~PathExists(call.pdf_path)
       /\ context = call.context0
       /\ ctxFile = call.ctxFile0
       /\ LET reloaded == LoadContext(ctxFile) IN
            reloaded.ok /\ reloaded.v = context

\* C6 witness: the second document of a two-document batch was missing,
\* after the first had advanced the context.
C6_Witness ==
  /\ err.type = "FileNotFoundError"
  /\ args.nfiles = 2 /\ idx = 1
  /\ context.session_counter > 0
  /\ Len(context.processed_files) > 0

\* C7: what json.load reads from json.dump of the context is the context,
\* field by field; and the context file, once written, loads as the context
\* that was saved.
C7_SaveLoadRoundTrip ==
  /\ LET loaded == JsonLoad(DumpContext(context)) IN
       /\ loaded.ok
       /\ DOMAIN loaded.v = DOMAIN context
       /\ \A f \in {"processed_files", "chapters", "current_chapter",
                     "session_counter"} : loaded.v[f] = context[f]
  /\ (ctxFile.exists /\ pc # "save_write") =>
       LET reloaded == LoadContext(ctxFile) IN
         reloaded.ok /\ reloaded.v = lastSaved

\* C7 witness: a context with two files, several chapters and a current
\* chapter has just been saved.
C7_Witness ==
  /\ pc = "step5"
  /\ Len(context.processed_files) = 2
  /\ Len(context.chapters) >= 2
  /\ context.current_chapter # PyNone
  /\ lastSaved = context

\* C8: from reset_context's return until the next document is registered,
\* the context in memory and the one the file loads as are the default.
C8_ResetDiscardsHistory ==
  (args.reset_context /\ idx = 0
     /\ pc \in {"next_pdf", "check_exists", "extract", "cache_open",
                 "cache_write", "analyze", "pd_begin"}) =>
    /\ context = DefaultContext
    /\ LET reloaded == LoadContext(ctxFile) IN
         reloaded.ok /\ reloaded.v = DefaultContext

\* C8 witness: reset_context has returned, having discarded a context with
\* files, chapters and a counter above 0.
C8_Witness ==
  /\ args.reset_context /\ idx = 0 /\ pc = "next_pdf"
  /\ call.context0.session_counter > 0
  /\ Len(call.context0.processed_files) > 0
  /\ call.ctxFile0.exists

\* C9: processed_files holds each name once and holds exactly the names of
\* the documents processed since the last reset, in memory and, between
\* runs, in the file; after a reset and one document of three chapters it
\* is that document's name alone.
C9_ProcessedFilesIsSet ==
  /\ Live => /\ NoDuplicates(context.processed_files)
             /\ Range(context.processed_files) = processedSince
  /\ ~Live /\ err = NoErr =>
       LET persisted == LoadContext(ctxFile).v.processed_files IN
         NoDuplicates(persisted) /\ Range(persisted) = processedSince
  /\ (pc = "step5" /\ args.reset_context /\ idx = 0 /\ Len(call.chapters) = 3) =>
       /\ context.processed_files = <<call.extracted_data.file_name>>
       /\ [j \in 1..3 |-> call.rows[j][1]] = <<IntToStr(1), IntToStr(2), IntToStr(3)>>

\* C9 witness: a document whose name the context already held has been
\* processed again.
C9_Witness ==
  /\ pc = "step5"
  /\ call.extracted_data.file_name \in Range(call.context0.processed_files)
  /\ Len(context.processed_files) = 2

\* C10: under --no-cache no extraction result is read from the cache and
\* none is written to it.
C10_NoCacheBypassesCache ==
  args.no_cache =>
    /\ pc \notin {"cache_open", "cache_write"}
    /\ ~call.from_cache

\* C11 (as stated): a document whose bytes were cached under any path finds
\* its cache entry, and a result read from the cache was stored for the
\* bytes of the document asked for.
C11_CacheKeyedByBytes ==
  /\ (pc = "extract" /\ call.use_cache) =>
       \A q \in ExistingPaths :
         (FileBytes(q) = FileBytes(call.pdf_path)
            /\ cacheFiles[_get_cache_key(q)].exists)
         => cacheFiles[_get_cache_key(call.pdf_path)].exists
  /\ call.from_cache =>
       FileBytes(call.extracted_data.file_path) = FileBytes(call.pdf_path)

\* C11 (amended): two files have the same cache key exactly when they have
\* the same base name and the same MD5 digest, whatever their directories;
\* and a result read from the cache was stored for a file with the base
\* name and the digest of the document asked for.
C11_CacheKeyedByNameAndDigest ==
  /\ \A p, q \in ExistingPaths :
       (_get_cache_key(p) = _get_cache_key(q)) <=>
         (Basename(p) = Basename(q)
            /\ Md5Hex(FileBytes(p)) = Md5Hex(FileBytes(q)))
  /\ call.from_cache =>
       /\ Basename(call.extracted_data.file_path) = Basename(call.pdf_path)
       /\ Md5Hex(FileBytes(call.extracted_data.file_path))
            = Md5Hex(FileBytes(call.pdf_path))

\* C11 witness: the result cached for a file is returned for its copy in
\* another directory, while a file of that base name with other bytes has
\* its own cache entry.
C11_Witness ==
  /\ pc = "analyze" /\ call.from_cache
  /\ call.pdf_path = PathCopy
  /\ call.extracted_data.file_path = PathC
  /\ cacheFiles[_get_cache_key(PathRenamed)].exists

\* The indexes of the heading lines among the lines of a document.
HeadingIndexes(lines) ==
  {k \in 1..Len(lines) : _is_chapter_heading(lines[k].line)}

\* The index of the i-th heading line, in document order.
NthHeading(lines, i) ==
  LET H == HeadingIndexes(lines) IN
  CHOOSE k \in H : Cardinality({h \in H : h <= k}) = i

\* C12: the chapters of a document are its heading lines in document order,
\* one chapter per heading line: the title is the trimmed line, start_page
\* the number of the page the line is on, and start_page never decreases
\* along the chapters.
C12_ChaptersAreHeadings ==
  pc \in {"pd_begin", "pd_loop", "save_open"} =>
    LET pages == call.extracted_data.pages
        lines == PageLines(pages)
        chapters == call.chapters
    IN /\ Len(chapters) = Cardinality(HeadingIndexes(lines))
       /\ \A i \in 1..Len(chapters) :
            LET k == NthHeading(lines, i) IN
              /\ chapters[i].title = lines[k].line
              /\ chapters[i].start_page = lines[k].page_number
              /\ chapters[i].title = Strip(chapters[i].title)
              /\ \E l \in Range(SplitLines(pages[chapters[i].start_page].text)) :
                   Strip(l) = chapters[i].title
       /\ \A i \in 1..(Len(chapters) - 1) :
            chapters[i].start_page <= chapters[i + 1].start_page

\* C12 witness: a document with a line before its first heading and two
\* headings on two pages, the second one trimmed of a leading blank.
C12_Witness ==
  /\ pc = "pd_begin"
  /\ Len(PageLines(call.extracted_data.pages)) = 3
  /\ Len(call.chapters) = 2
  /\ call.chapters[1].title = TitleOne /\ call.chapters[1].start_page = 1
  /\ call.chapters[2].title = TitleUpper /\ call.chapters[2].start_page = 2

\* C14: the content of each chapter is the trimmed lines, empty ones
\* included, that follow its heading line up to the next heading line or
\* the end of the document, in order and across pages; so no line before
\* the first heading is in any chapter.
C14_ContentBetweenHeadings ==
  pc \in {"pd_begin", "pd_loop", "save_open"} =>
    LET lines == PageLines(call.extracted_data.pages)
        chapters == call.chapters
        n == Cardinality(HeadingIndexes(lines))
        EndOf(i) == IF i < n THEN NthHeading(lines, i + 1) ELSE Len(lines) + 1
    IN /\ Len(chapters) = n
       /\ \A i \in 1..n :
            LET k == NthHeading(lines, i) IN
              chapters[i].content =
                [j \in 1..(EndOf(i) - k - 1) |-> lines[k + j].line]

\* C14 witness: a chapter whose content is an empty line on the page of its
\* heading and a trimmed line on the next page, after a line that is in no
\* chapter.
C14_Witness ==
  /\ pc = "pd_begin"
  /\ Len(call.extracted_data.pages) = 2
  /\ Len(call.chapters) = 1 /\ call.chapters[1].start_page = 1
  /\ call.chapters[1].content = << <<>>, sPractice \o <<" ">> \o sGoal >>

\* No line of the document is a heading line.
NoHeadingLine(extracted_data) ==
  HeadingIndexes(PageLines(extracted_data.pages)) = {}

\* C13: while process_pdf works on a document without a heading line, no
\* error has occurred, there are no chapters and no rows, and the session
\* counter is the one the call began with, in memory and, once saved, in
\* the context file.
C13_NoHeadingNoRows ==
  ((pc = "pd_begin" \/ InProcessPdfData) /\ NoHeadingLine(call.extracted_data)) =>
    /\ err = NoErr
    /\ call.chapters = <<>>
    /\ call.rows = <<>>
    /\ context.session_counter = call.context0.session_counter
    /\ pc = "step5" =>
         LoadContext(ctxFile).v.session_counter = call.context0.session_counter

\* C13 witness: process_pdf_data has returned for a document of three lines
\* without a heading, the counter being above 0.
C13_Witness ==
  /\ pc = "step5"
  /\ NoHeadingLine(call.extracted_data)
  /\ Len(PageLines(call.extracted_data.pages)) = 3
  /\ call.context0.session_counter > 0
  /\ call.rows = <<>>

\* The pages whose lowered text holds one of the phrases.
TriggeredPages(pages, phrases) ==
  {n \in 1..Len(pages) : \E ph \in phrases : Contains(Lower(pages[n].text), ph)}

\* The entries are the triggered pages, one entry each, in page order, each
\* with the number and the text of its page.
EntriesAreTriggeredPages(entries, pages, phrases) ==
  /\ {entries[i].page : i \in 1..Len(entries)} = TriggeredPages(pages, phrases)
  /\ \A i \in 1..(Len(entries) - 1) : entries[i].page < entries[i + 1].page
  /\ \A i \in 1..Len(entries) :
       /\ DOMAIN entries[i] = {"page", "text"}
       /\ pages[entries[i].page].page_number = entries[i].page
       /\ pages[entries[i].page].text = entries[i].text

\* C17: each category of the metadata has an entry for a page exactly when
\* the page's lowered text holds one of the category's trigger phrases, one
\* entry per page, in page order, with the page's number and its text as
\* extracted; a category's entries depend on its own phrases only.
C17_OneEntryPerTriggeredPage ==
  pc \in {"pd_begin", "pd_loop", "save_open"} =>
    LET pages == call.extracted_data.pages IN
      /\ DOMAIN call.metadata =
           {"learning_goals", "homework_tasks", "review_questions"}
      /\ EntriesAreTriggeredPages(call.metadata.learning_goals, pages,
                                  LearningGoalTriggers)
      /\ EntriesAreTriggeredPages(call.metadata.homework_tasks, pages,
                                  HomeworkTriggers)
      /\ EntriesAreTriggeredPages(call.metadata.review_questions, pages,
                                  ReviewTriggers)

\* C17 witness: of two pages the first triggers learning goals only (by a
\* phrase with a capital letter) and the second, which holds "review" and
\* "question", is the one entry of review questions and of homework.
C17_Witness ==
  /\ pc = "pd_begin"
  /\ call.metadata.learning_goals = <<[page |-> 1, text |-> LineLearningGoal]>>
  /\ call.metadata.review_questions = <<[page |-> 2, text |-> LineHomeworkReview]>>
  /\ call.metadata.homework_tasks = <<[page |-> 2, text |-> LineHomeworkReview]>>

\* The indexes of the lines of text that hold one of the keywords, lowered.
MatchingLines(text, keywords) ==
  LET lines == SplitLines(text) IN
  {i \in 1..Len(lines) : \E kw \in keywords : Contains(Lower(lines[i]), kw)}

\* The first of these lines, trimmed.
FirstMatchingLine(text, keywords) ==
  LET m == MatchingLines(text, keywords) IN
  Strip(SplitLines(text)[CHOOSE i \in m : \A j \in m : i <= j])

\* The " | "-join, in entry order, of the first matching line of each entry
\* on a page >= start_page that has a matching line.
FieldOf(entries, start_page, keywords) ==
  LET Counts(e) == e.page >= start_page /\ MatchingLines(e.text, keywords) # {}
      counted == SelectSeq(entries, Counts)
  IN JoinBar([i \in 1..Len(counted) |->
                FirstMatchingLine(counted[i].text, keywords)])

\* C16 (as stated): the learning goals, homework and check test fields of a
\* chapter's row are made of the first lines that hold a trigger phrase of
\* extract_metadata for the category.
C16_FieldsByTriggerPhrases ==
  pc \in {"pd_loop", "save_open"} =>
    \A j \in 1..Len(call.rows) :
      LET start_page == call.chapters[j].start_page IN
        /\ call.rows[j][5] = FieldOf(call.metadata.learning_goals, start_page,
                                     LearningGoalTriggers)
        /\ call.rows[j][6] = FieldOf(call.metadata.homework_tasks, start_page,
                                     HomeworkTriggers)
        /\ call.rows[j][7] = FieldOf(call.metadata.review_questions, start_page,
                                     ReviewTriggers)

\* C16 (amended): the fields are made of the first lines that hold a
\* keyword of the row builders: "goal" or its Hangul word for learning
\* goals; "homework", its two Hangul words or "practice" for homework;
\* "question", "review" or their Hangul words for the check test.
C16_FieldsByLineKeywords ==
  pc \in {"pd_loop", "save_open"} =>
    \A j \in 1..Len(call.rows) :
      LET start_page == call.chapters[j].start_page IN
        /\ call.rows[j][5] = FieldOf(call.metadata.learning_goals, start_page,
                                     {sGoal, kGoal})
        /\ call.rows[j][6] = FieldOf(call.metadata.homework_tasks, start_page,
                                     {sHomework, kHomework, kAssignment, sPractice})
        /\ call.rows[j][7] = FieldOf(call.metadata.review_questions, start_page,
                                     {sQuestion, sReview, kProblem, kReview})

\* C16 witness: the learning goals field of a row is a line with "goal"
\* that stands before the line with "Learning goal" on the page.
C16_Witness ==
  /\ pc = "save_open"
  /\ Len(call.rows) = 1
  /\ Len(call.metadata.learning_goals) = 1
  /\ call.rows[1][5] = Strip(LinePracticeGoal)
  /\ call.rows[1][6] = <<>>

\* The number a session field stands for.
SessionNumber(field) == CHOOSE n \in 0..(2 * MaxSession) : IntToStr(n) = field

\* process_pdf is at its step 5 or has failed there.
AtStep5 ==
  \/ pc \in {"step5", "headers", "append"}
  \/ pc = "off" /\ err.type = "HttpError" /\ call.pdf_path # <<>>

\* C18: from the moment process_pdf reaches its step 5, also when
\* create_spreadsheet, setup_headers or batch_append_rows has failed, the
\* context file holds the context advanced by the document's chapters
\* (the counter by one per row, the history up to the last chapter); and
\* the rows of a document whose publication failed earlier carry higher
\* session numbers than the rows that were lost.
C18_ContextSavedBeforePublishing ==
  /\ AtStep5 =>
       LET persisted == LoadContext(ctxFile) IN
         /\ persisted.ok
         /\ persisted.v = context
         /\ persisted.v.session_counter
              = call.context0.session_counter + Len(call.rows)
         /\ call.rows # <<>> =>
              /\ persisted.v.current_chapter = call.chapters[Len(call.chapters)].title
              /\ \A j \in 1..Len(call.rows) :
                   \E h \in 1..Len(persisted.v.chapters) :
                     persisted.v.chapters[h].title = call.chapters[j].title
  /\ (Live /\ (InProcessPdfData \/ pc \in {"headers", "append"})
        /\ call.extracted_data.file_name = lost.file_name) =>
       \A j \in 1..Len(call.rows), l \in 1..Len(lost.sessions) :
         SessionNumber(call.rows[j][1]) > SessionNumber(lost.sessions[l])

\* C18 witness: the rows of a document are about to be appended after an
\* earlier run lost the rows of the same document to a failure.
C18_Witness ==
  /\ pc = "append"
  /\ call.rows # <<>>
  /\ lost.file_name = call.extracted_data.file_name
  /\ lost.sessions # <<>>

\* The rows of the spreadsheet after those it had when the run began and
\* after a header row the run wrote.
DataRows(s) ==
  SubSeq(s.values, Len(s.prior) + s.header_writes + 1, Len(s.values))

\* C19: a run with credentials creates a spreadsheet unless it is given one
\* document and a spreadsheet id. In a spreadsheet it created, the header
\* row is written before any row is appended and once in the run, as the
\* first row. In a spreadsheet it was given, the run creates nothing,
\* writes no header and leaves the rows it found in place. In both, the
\* rows that follow are the rows the run has emitted, in the order of
\* emission (document by document, chapter by chapter): all of them between
\* two documents, and all but the current document's during process_pdf.
C19_HeaderOnceRowsInOrder ==
  /\ (pc = "next_pdf" /\ idx >= 1) =>
       /\ sheet.id # PyNone
       /\ sheet.created <=> ~(args.nfiles = 1 /\ args.spreadsheet_id # PyNone)
       /\ sheet.created => sheet.header_writes = 1
  /\ sheet.created =>
       /\ sheet.prior = <<>>
       /\ sheet.header_writes <= 1
       /\ sheet.values # <<>> =>
            sheet.header_writes = 1 /\ sheet.values[1] = Headers
  /\ (sheet.id # PyNone /\ ~sheet.created) =>
       /\ sheet.header_writes = 0
       /\ SubSeq(sheet.values, 1, Len(sheet.prior)) = sheet.prior
  /\ (Live /\ sheet.id # PyNone) =>
       LET data == DataRows(sheet) IN
         /\ \A i \in 1..Len(data) :
              /\ data[i][1] = IntToStr(sheet.base + i)
              /\ data[i][1] = issued[sheet.base + i]
         /\ sheet.base + Len(data) =
              IF call.pdf_path = <<>>
              THEN context.session_counter
              ELSE call.context0.session_counter

\* C19 witness: a batch of two documents has appended, under the header
\* row, the three rows of the first and then the row of the second.
C19_Witness ==
  /\ pc = "next_pdf" /\ args.nfiles = 2 /\ idx = 2
  /\ sheet.created
  /\ Len(sheet.values) = 5
  /\ sheet.values[1] = Headers
  /\ sheet.values[4][2] = TitleTwo
  /\ sheet.values[5][2] = TitleOne

\* s is the beginning of t.
IsPrefix(s, t) == Len(s) <= Len(t) /\ SubSeq(t, 1, Len(s)) = s

\* process_multiple_pdfs has processed document idx (idx >= 1) and
\* process_pdf has ended with an exception on the next one.
FailedInBatch ==
  /\ pc = "off" /\ args.nfiles > 1 /\ idx >= 1
  /\ call.pdf_path # <<>>
  /\ err.type \in {"FileNotFoundError", "HttpError"}

\* Between two documents of a batch the context file holds the context in
\* memory, with the counter, the file names and a history entry for every
\* session of the documents processed so far.
BatchPersistsEachDocument ==
  (args.nfiles > 1 /\ idx >= 1
     /\ pc \in {"next_pdf", "check_exists", "extract", "cache_open",
                 "cache_write", "analyze", "pd_begin"}) =>
    LET persisted == LoadContext(ctxFile) IN
      /\ persisted.ok
      /\ persisted.v = context
      /\ persisted.v.session_counter = Len(issued)
      /\ processedSince \subseteq Range(persisted.v.processed_files)
      /\ \A j \in 1..Len(issued) :
           \E h \in 1..Len(persisted.v.chapters) :
             persisted.v.chapters[h].session = j

\* C15 (as stated): in a batch the context file holds the context of the
\* documents processed so far, and when process_pdf fails on the next
\* document the file still loads as the context that document began with.
C15_FailureKeepsEarlierDocuments ==
  /\ BatchPersistsEachDocument
  /\ FailedInBatch =>
       LET persisted == LoadContext(ctxFile) IN
         persisted.ok /\ persisted.v = call.context0

\* C15 (amended): in a batch the context file holds the context of the
\* documents processed so far; when process_pdf fails on the next document
\* before process_pdf_data (the file is missing), the file loads as the
\* context that document began with; when it fails at the spreadsheet write
\* of step 5, the file loads as that context advanced by the failed
\* document: its file name registered, the counter raised by one per row,
\* its chapters added after the earlier history.
C15_FailureKeepsSavedDocuments ==
  /\ BatchPersistsEachDocument
  /\ FailedInBatch =>
       LET persisted == LoadContext(ctxFile) IN
         /\ persisted.ok
         /\ err.type = "FileNotFoundError" => persisted.v = call.context0
         /\ err.type = "HttpError" =>
              /\ persisted.v = context
              /\ persisted.v.session_counter
                   = call.context0.session_counter + Len(call.rows)
              /\ call.extracted_data.file_name
                   \in Range(persisted.v.processed_files)
              /\ IsPrefix(call.context0.processed_files,
                          persisted.v.processed_files)
              /\ IsPrefix(call.context0.chapters, persisted.v.chapters)
              /\ \A j \in 1..Len(call.rows) :
                   \E h \in 1..Len(persisted.v.chapters) :
                     /\ h > Len(call.context0.chapters)
                     /\ persisted.v.chapters[h].title = call.chapters[j].title

\* C15 witness: the second document of a batch has failed at
\* batch_append_rows with its rows emitted, after the first document's rows
\* were appended.
C15_Witness ==
  /\ FailedInBatch /\ idx = 1
  /\ err = [type |-> "HttpError", at |-> "batch_append_rows"]
  /\ call.rows # <<>>
  /\ call.context0.session_counter > 0
  /\ Len(sheet.values) > 1

====
